---------------------------- MODULE Spec2Model ----------------------------
(***************************************************************************)
(* A model of kubewg-net/container:                                        *)
(*   - config.LoadConfig  (src/internal/config/config.go), the layered     *)
(*     configuration resolver, as a function of the parsed flag set, the   *)
(*     process environment and the outcome of reading the config file;     *)
(*   - pprof.Server       (src/unnamed/part_000), the dual-stack listener  *)
(*     with its Start and Stop methods, as interleaved goroutine steps;    *)
(*   - cmd.run            (src/unnamed/part_000), which resolves the       *)
(*     configuration, starts the enabled servers and stops them when a     *)
(*     signal arrives.                                                     *)
(*                                                                         *)
(* Go strings are sequences of one-character strings, so that parsing      *)
(* (strconv.ParseBool, strconv.ParseUint) is computed, not assumed.        *)
(***************************************************************************)
EXTENDS Integers, Sequences, FiniteSets, TLC

VARIABLES
    \* ---- config.LoadConfig ----
    flagsIn,     \* cmd.Flags() after cobra parsed the command line: name -> [Value, Changed]
    envIn,       \* the process environment: variable name -> [set, val]
    fileIn,      \* what os.ReadFile(configPath) yields: [outcome, doc]
    cfgPc,       \* "call" before LoadConfig ran, "done" after it returned
    result,      \* what LoadConfig returned (and the flag set it left behind)
    \* ---- pprof.Server ----
    stopped,     \* s.stopped
    inShutdown,  \* per listener: the http.Server is shutting down (Shutdown was called)
    lst,         \* per listener: its socket, "none" | "open" | "closed"
    closes,      \* per listener: how many times its socket was released
    conns,       \* per listener: connections with a request in flight
    portBusy,    \* per listener: its address is in use, so binding fails
    startPc,     \* Start: "idle" | "go6" | "wait" | "returned"
    gor,         \* per listener: where Start's goroutine for it stands
    lasErr,      \* per listener: what ListenAndServe returned
    reported,    \* per listener: slog.Error was called for it
    stopPc,      \* Stop: "idle" | "mark" | "go4" | "go6" | "wait"
    stopCalls,   \* how many times Stop has been called
    stopRet,     \* what the latest finished Stop returned
    ctxDone,     \* the timeout context of the running Stop has expired
    sd,          \* per listener: where the errgroup goroutine calling Shutdown stands
    sdErr,       \* per listener: what Shutdown returned in the latest Stop
    sdOrder,     \* the listeners in the order their Shutdown returned in the latest Stop
    egErr,       \* errGrp's err: the first non-nil error a goroutine returned
    \* ---- cmd.run ----
    runPc,       \* run: "load" | "metrics" | "pprof" | "add" | "listen" | "recv" | "hooks" | "returned"
    runRet,      \* what run returned: "none" | "nil" | "loaderr"
    srvNew,      \* per server: metricsServer / pprofServer is not nil
    startG,      \* per server: the goroutine of "go server.Start()"
    hookAdded,   \* the stop closure is registered with the shutdown package
    notify,      \* signal.Notify has registered the channel of shutdown.Listen
    sigCh,       \* signals waiting in that channel (its capacity is 1)
    sigs,        \* signals the process has been sent so far
    hookPc,      \* the stop closure: "none" | "go_metrics" | "go_pprof" | "wait" | "done" | "exited"
    hookCalls,   \* how many times the stop closure has been invoked
    stopG,       \* per server: the errgroup goroutine calling its Stop
    stopCnt,     \* per server: how many times its Stop has been called
    stopErr,     \* per server: what its Stop returned
    runEg,       \* the stop closure's errGrp: the first non-nil error
    logged,      \* the error slog.Error("Error shutting down") was given
    exit         \* the process: "alive" | "exit1" (os.Exit(1)) | "killed" (by a signal)

cfgVars == <<flagsIn, envIn, fileIn, cfgPc, result>>

srvVars == <<stopped, inShutdown, lst, closes, conns, portBusy, startPc, gor, lasErr,
             reported, stopPc, stopCalls, stopRet, ctxDone, sd, sdErr, sdOrder, egErr>>

runVars == <<runPc, runRet, srvNew, startG, hookAdded, notify, sigCh, sigs,
             hookPc, hookCalls, stopG, stopCnt, stopErr, runEg, logged, exit>>

vars == <<flagsIn, envIn, fileIn, cfgPc, result,
          stopped, inShutdown, lst, closes, conns, portBusy, startPc, gor, lasErr,
          reported, stopPc, stopCalls, stopRet, ctxDone, sd, sdErr, sdOrder, egErr,
          runPc, runRet, srvNew, startG, hookAdded, notify, sigCh, sigs,
          hookPc, hookCalls, stopG, stopCnt, stopErr, runEg, logged, exit>>

-----------------------------------------------------------------------------
(* Bounds of the model *)

\* At most this many entries (a passed flag, an environment variable, a key of
\* the config file) are given to LoadConfig.
MaxEntries == 3

\* At most this many requests are in flight on one listener.
MaxConns == 1

\* Stop is called at most this many times on the server.
MaxStops == 2

\* At most this many signals are sent to the process.
MaxSignals == 2

-----------------------------------------------------------------------------
(* config.go: keys, constants, flag registration *)

ConfigFileKey      == "config"
TracingEnabledKey  == "tracing.enabled"
TracingOTLPEndKey  == "tracing.otlp_endpoint"
PProfEnabledKey    == "pprof.enabled"
PProfIPV4HostKey   == "pprof.ipv4_host"
PProfIPV6HostKey   == "pprof.ipv6_host"
PProfPortKey       == "pprof.port"
MetricsEnabledKey  == "metrics.enabled"
MetricsIPV4HostKey == "metrics.ipv4_host"
MetricsIPV6HostKey == "metrics.ipv6_host"
MetricsPortKey     == "metrics.port"

\* The fields of Config, named by the key of the flag that overrides them.
ConfigKeys ==
    { TracingEnabledKey, TracingOTLPEndKey,
      PProfEnabledKey, PProfIPV4HostKey, PProfIPV6HostKey, PProfPortKey,
      MetricsEnabledKey, MetricsIPV4HostKey, MetricsIPV6HostKey, MetricsPortKey }

FlagNames == ConfigKeys \cup {ConfigFileKey}

\* pflag's VisitAll visits the flags in lexicographical order of their names.
FlagOrder ==
    << ConfigFileKey,
       MetricsEnabledKey, MetricsIPV4HostKey, MetricsIPV6HostKey, MetricsPortKey,
       PProfEnabledKey, PProfIPV4HostKey, PProfIPV6HostKey, PProfPortKey,
       TracingEnabledKey, TracingOTLPEndKey >>

DefaultConfigName      == <<"c","o","n","f","i","g",".","y","a","m","l">>
DefaultMetricsIPV4Host == <<"1","2","7",".","0",".","0",".","1">>
DefaultMetricsIPV6Host == <<":",":","1">>
DefaultMetricsPort     == 8081
DefaultPprofIPV4Host   == <<"1","2","7",".","0",".","0",".","1">>
DefaultPprofIPV6Host   == <<":",":","1">>
DefaultPprofPort       == 6060

\* Port is a uint16.
MaxUint16 == 65535

\* The type of each flag's value (Bool, String/StringP, Uint16 in RegisterFlags).
Kind(k) ==
    IF k \in {TracingEnabledKey, PProfEnabledKey, MetricsEnabledKey} THEN "bool"
    ELSE IF k \in {PProfPortKey, MetricsPortKey} THEN "uint16"
    ELSE "string"

\* Go's zero value of a field of that type.
Zero(k) ==
    CASE Kind(k) = "bool"   -> FALSE
      [] Kind(k) = "uint16" -> 0
      [] OTHER              -> <<>>

\* RegisterFlags: the default each flag carries (the pprof flags are registered
\* with the metrics defaults).
RegisterFlags(k) ==
    CASE k = ConfigFileKey      -> DefaultConfigName
      [] k = TracingEnabledKey  -> FALSE
      [] k = TracingOTLPEndKey  -> <<>>
      [] k = PProfEnabledKey    -> FALSE
      [] k = PProfIPV4HostKey   -> DefaultMetricsIPV4Host
      [] k = PProfIPV6HostKey   -> DefaultMetricsIPV6Host
      [] k = PProfPortKey       -> DefaultMetricsPort
      [] k = MetricsEnabledKey  -> FALSE
      [] k = MetricsIPV4HostKey -> DefaultMetricsIPV4Host
      [] k = MetricsIPV6HostKey -> DefaultMetricsIPV6Host
      [] k = MetricsPortKey     -> DefaultMetricsPort

\* var config Config: every field at its zero value.
ZeroConfig == [k \in ConfigKeys |-> Zero(k)]

\* strings.ReplaceAll(strings.ToUpper(f.Name), ".", "__")
OptName(k) ==
    CASE k = ConfigFileKey      -> "CONFIG"
      [] k = TracingEnabledKey  -> "TRACING__ENABLED"
      [] k = TracingOTLPEndKey  -> "TRACING__OTLP_ENDPOINT"
      [] k = PProfEnabledKey    -> "PPROF__ENABLED"
      [] k = PProfIPV4HostKey   -> "PPROF__IPV4_HOST"
      [] k = PProfIPV6HostKey   -> "PPROF__IPV6_HOST"
      [] k = PProfPortKey       -> "PPROF__PORT"
      [] k = MetricsEnabledKey  -> "METRICS__ENABLED"
      [] k = MetricsIPV4HostKey -> "METRICS__IPV4_HOST"
      [] k = MetricsIPV6HostKey -> "METRICS__IPV6_HOST"
      [] k = MetricsPortKey     -> "METRICS__PORT"

EnvNames == {OptName(k) : k \in FlagNames}

-----------------------------------------------------------------------------
(* The config file: the document paths the struct tags of Config accept *)

\* Config embeds Tracing without a tag, so its fields are promoted to the top
\* level of the document; PProf and Metrics are nested under "pprof"/"metrics".
\* A path the struct does not declare is ignored by the decoder.
DocPaths ==
    { "enabled", "otlp_endpoint", "tracing.enabled", "tracing.otlp_endpoint",
      "pprof.enabled", "pprof.ipv4_host", "pprof.ipv6_host", "pprof.port",
      "metrics.enabled", "metrics.ipv4_host", "metrics.ipv6_host", "metrics.port" }

\* The field of Config a document path decodes into ("" when there is none).
FieldOf(p) ==
    CASE p = "enabled"       -> TracingEnabledKey
      [] p = "otlp_endpoint" -> TracingOTLPEndKey
      [] p \in {"tracing.enabled", "tracing.otlp_endpoint"} -> ""
      [] OTHER               -> p

\* The type of the value a document gives at a path.
DocKind(p) ==
    CASE p \in {"enabled", "tracing.enabled"}             -> "bool"
      [] p \in {"otlp_endpoint", "tracing.otlp_endpoint"} -> "string"
      [] OTHER                                            -> Kind(p)

\* yaml.Unmarshal(data, &config) on a well-formed document.
Unmarshal(doc, config) ==
    [k \in ConfigKeys |->
        IF \E p \in DocPaths : FieldOf(p) = k /\ doc[p].set
        THEN doc[CHOOSE p \in DocPaths : FieldOf(p) = k /\ doc[p].set].val
        ELSE config[k]]


-----------------------------------------------------------------------------
(* f.Value.Set(val): pflag's typed values, parsing with strconv *)

NilErr == [kind |-> "nil", flag |-> ""]

\* strconv.ParseBool: the literals it accepts; anything else is a syntax error
\* (and the value returned with the error is false).
ParseBool(s) ==
    IF s \in { <<"1">>, <<"t">>, <<"T">>, <<"t","r","u","e">>,
               <<"T","R","U","E">>, <<"T","r","u","e">> }
    THEN [ok |-> TRUE, val |-> TRUE]
    ELSE IF s \in { <<"0">>, <<"f">>, <<"F">>, <<"f","a","l","s","e">>,
                    <<"F","A","L","S","E">>, <<"F","a","l","s","e">> }
    THEN [ok |-> TRUE, val |-> FALSE]
    ELSE [ok |-> FALSE, val |-> FALSE]

Digits == {"0","1","2","3","4","5","6","7","8","9"}

DigitVal(c) ==
    CASE c = "0" -> 0 [] c = "1" -> 1 [] c = "2" -> 2 [] c = "3" -> 3
      [] c = "4" -> 4 [] c = "5" -> 5 [] c = "6" -> 6 [] c = "7" -> 7
      [] c = "8" -> 8 [] c = "9" -> 9

RECURSIVE DecimalVal(_, _)
\* The value of the decimal digits s, accumulated left to right from acc.
DecimalVal(s, acc) ==
    IF s = <<>> THEN acc ELSE DecimalVal(Tail(s), 10 * acc + DigitVal(Head(s)))

\* strconv.ParseUint(s, 0, 16) on decimal input without a base prefix: a syntax
\* error yields 0, a value beyond 16 bits a range error and the largest uint16.
ParseUint16(s) ==
    IF s = <<>> \/ (\E i \in 1..Len(s) : s[i] \notin Digits)
    THEN [ok |-> FALSE, val |-> 0]
    ELSE IF DecimalVal(s, 0) > MaxUint16
    THEN [ok |-> FALSE, val |-> MaxUint16]
    ELSE [ok |-> TRUE, val |-> DecimalVal(s, 0)]

\* f.Value.Set(val) for the flag named k. pflag stores what strconv returned
\* even when it returns an error.
Set(k, s) ==
    CASE Kind(k) = "bool"   -> ParseBool(s)
      [] Kind(k) = "uint16" -> ParseUint16(s)
      [] OTHER              -> [ok |-> TRUE, val |-> s]

-----------------------------------------------------------------------------
(* LoadConfig *)

\* The VisitAll callback without "f.Changed = true".
VisitFlagKeepsChanged(st, k, env) ==
    IF st.cause.kind # "nil" THEN st
    ELSE IF ~st.flags[k].Changed /\ env[OptName(k)].set
    THEN LET r == Set(k, env[OptName(k)].val) IN
         [ flags |-> [st.flags EXCEPT ![k] = [Value |-> r.val, Changed |-> @.Changed]],
           cause |-> IF r.ok THEN st.cause ELSE [kind |-> "env", flag |-> k] ]
    ELSE st

\* The VisitAll callback without the "ctx.Err() != nil" early return.
VisitFlagNoAbort(st, k, env) ==
    IF ~st.flags[k].Changed /\ env[OptName(k)].set
    THEN LET r == Set(k, env[OptName(k)].val) IN
         [ flags |-> [st.flags EXCEPT ![k] = [Value |-> r.val, Changed |-> TRUE]],
           cause |-> IF r.ok \/ st.cause.kind # "nil" THEN st.cause
                     ELSE [kind |-> "env", flag |-> k] ]
    ELSE st

\* The callback LoadConfig hands to VisitAll, applied to flag k.
\* st = [flags, cause]: the flag set and the cause ctx was cancelled with.
VisitFlag(st, k, env) ==
    IF st.cause.kind # "nil" THEN st
    ELSE IF ~st.flags[k].Changed /\ env[OptName(k)].set
    THEN LET r == Set(k, env[OptName(k)].val) IN
         [ flags |-> [st.flags EXCEPT ![k] = [Value |-> r.val, Changed |-> TRUE]],
           cause |-> IF r.ok THEN st.cause ELSE [kind |-> "env", flag |-> k] ]
    ELSE st

RECURSIVE VisitAll(_, _, _)
\* cmd.Flags().VisitAll(...): the callback on every flag from position i on.
VisitAll(i, st, env) ==
    IF i > Len(FlagOrder) THEN st
    ELSE VisitAll(i + 1, VisitFlag(st, FlagOrder[i], env), env)

\* The not-found test with the comparison against the default name left out.
IgnoreNotFoundAnyPath(file, configPath) ==
    file.outcome = "notexist"

\* errors.Is(err, os.ErrNotExist) && configPath == DefaultConfigName
IgnoreNotFound(file, configPath) ==
    file.outcome = "notexist" /\ configPath = DefaultConfigName

\* "Flag overrides here": every changed flag replaces its field.
FlagOverrides(config, flags) ==
    [k \in ConfigKeys |-> IF flags[k].Changed THEN flags[k].Value ELSE config[k]]

\* "Defaults": the host and port fields of metrics and pprof that are zero.
Defaults(config) ==
    [k \in ConfigKeys |->
        CASE k = MetricsIPV4HostKey /\ config[k] = <<>> -> DefaultMetricsIPV4Host
          [] k = MetricsIPV6HostKey /\ config[k] = <<>> -> DefaultMetricsIPV6Host
          [] k = MetricsPortKey     /\ config[k] = 0    -> DefaultMetricsPort
          [] k = PProfIPV4HostKey   /\ config[k] = <<>> -> DefaultPprofIPV4Host
          [] k = PProfIPV6HostKey   /\ config[k] = <<>> -> DefaultPprofIPV6Host
          [] k = PProfPortKey       /\ config[k] = 0    -> DefaultPprofPort
          [] OTHER                                      -> config[k]]

\* (c *Config) Validate(): accepts everything.
Validate(config) == NilErr

\* What LoadConfig hands back: the config, the error, and what it did on the
\* way (the flag set as the environment pass left it; whether the file was read,
\* the flag overrides applied and the defaults filled).
Return(config, err, flags, steps) ==
    [config |-> config, err |-> err, flags |-> flags, steps |-> steps]

\* LoadConfig from "Flag overrides here" on.
Merge(config, flags, steps) ==
    LET merged == Defaults(FlagOverrides(config, flags)) IN
    Return(merged, Validate(merged), flags, steps \cup {"overrides", "defaults"})

\* LoadConfig from "if ctx.Err() != nil" on, st being what VisitAll left.
AfterEnv(st, file) ==
    IF st.cause.kind # "nil"
    THEN Return(ZeroConfig, st.cause, st.flags, {})
    ELSE IF st.flags[ConfigFileKey].Value # <<>>
    THEN IF IgnoreNotFound(file, st.flags[ConfigFileKey].Value)
         THEN Return(ZeroConfig, NilErr, st.flags, {"read"})
         ELSE IF file.outcome # "data"
         THEN Return(ZeroConfig, [kind |-> "read", flag |-> ""], st.flags, {"read"})
         ELSE IF file.malformed
         THEN Return(ZeroConfig, [kind |-> "unmarshal", flag |-> ""], st.flags, {"read"})
         ELSE Merge(Unmarshal(file.doc, ZeroConfig), st.flags, {"read"})
    ELSE Merge(ZeroConfig, st.flags, {})

LoadConfig(flags, env, file) ==
    AfterEnv(VisitAll(1, [flags |-> flags, cause |-> NilErr], env), file)

-----------------------------------------------------------------------------
(* The inputs LoadConfig is run on *)

OtherConfigName == <<"o",".","y","a","m","l">>

ZeroOfKind(kind) ==
    CASE kind = "bool" -> FALSE [] kind = "uint16" -> 0 [] OTHER -> <<>>

\* Values an explicitly passed flag may carry (the zero value among them).
FlagVals(k) ==
    CASE k = ConfigFileKey  -> {DefaultConfigName, OtherConfigName, <<>>}
      [] Kind(k) = "bool"   -> {TRUE, FALSE}
      [] Kind(k) = "uint16" -> {0, 7001}
      [] OTHER              -> {<<>>, <<"a">>}

\* Values an environment variable may carry: zero, non-zero, and for the parsed
\* kinds one that does not parse.
EnvStrs(k) ==
    CASE k = ConfigFileKey  -> {OtherConfigName, <<>>}
      [] Kind(k) = "bool"   -> {<<"t","r","u","e">>, <<"f","a","l","s","e">>, <<"x">>}
      [] Kind(k) = "uint16" -> {<<"0">>, <<"7","0","0","2">>, <<"6","5","5","3","6">>}
      [] OTHER              -> {<<>>, <<"e">>}

\* Values the config file may give for a path.
FileVals(kind) ==
    CASE kind = "bool"   -> {TRUE, FALSE}
      [] kind = "uint16" -> {0, 7003}
      [] OTHER           -> {<<>>, <<"f">>}

\* The document paths a reader of the dotted-path schema would use for key k,
\* and the one the struct tags accept.
DocPathsOf(k) ==
    CASE k = ConfigFileKey     -> {}
      [] k = TracingEnabledKey -> {"tracing.enabled", "enabled"}
      [] k = TracingOTLPEndKey -> {"tracing.otlp_endpoint", "otlp_endpoint"}
      [] OTHER                 -> {k}

DocUnset(p) == [set |-> FALSE, val |-> ZeroOfKind(DocKind(p))]

\* Nothing passed, nothing set, an empty document.
NoInputs ==
    [ flags |-> [k \in FlagNames |-> [Value |-> RegisterFlags(k), Changed |-> FALSE]],
      env   |-> [n \in EnvNames |-> [set |-> FALSE, val |-> <<>>]],
      doc   |-> [p \in DocPaths |-> DocUnset(p)] ]

\* The inputs b with flag k passed as v (cobra stores the value and marks the
\* flag changed).
WithFlag(b, k, v) ==
    [b EXCEPT !.flags[k] = [Value |-> v, Changed |-> TRUE]]

\* The inputs b with the environment variable of flag k set to s.
WithEnv(b, k, s) ==
    [b EXCEPT !.env[OptName(k)] = [set |-> TRUE, val |-> s]]

\* The inputs b with the document giving v at path p.
WithFile(b, p, v) ==
    [b EXCEPT !.doc[p] = [set |-> TRUE, val |-> v]]

\* The inputs drawn for LoadConfig are b, with the file outcome o.
DrawInputs(b, o) ==
    /\ flagsIn = b.flags
    /\ envIn = b.env
    /\ fileIn = [ outcome   |-> IF o = "malformed" THEN "data" ELSE o,
                  malformed |-> (o = "malformed"),
                  doc       |-> IF o = "data" THEN b.doc ELSE NoInputs.doc ]

RECURSIVE InputsUpTo(_, _, _, _, _)
\* Every input that adds to b at most n more entries, each for a flag at
\* position lo or later of FlagOrder and, at position lo itself, of a later
\* source than src (0: any, 1: flag, 2: environment, 3: file; the file may
\* give several paths of one flag), so that no set of entries is drawn twice.
\* Only a decoded document (o = "data") has entries.
InputsUpTo(n, lo, src, b, o) ==
    \/ DrawInputs(b, o)
    \/ /\ n > 0
       /\ \E i \in lo..Len(FlagOrder) :
            \/ /\ ~(i = lo /\ src >= 1)
               /\ \E v \in FlagVals(FlagOrder[i]) :
                     InputsUpTo(n - 1, i, 1, WithFlag(b, FlagOrder[i], v), o)
            \/ /\ ~(i = lo /\ src >= 2)
               /\ \E e \in EnvStrs(FlagOrder[i]) :
                     InputsUpTo(n - 1, i, 2, WithEnv(b, FlagOrder[i], e), o)
            \/ /\ o = "data"
               /\ ~(i = lo /\ src > 3)
               /\ \E p \in DocPathsOf(FlagOrder[i]) :
                     \E v \in FileVals(DocKind(p)) :
                         InputsUpTo(n - 1, i, 3, WithFile(b, p, v), o)

\* What os.ReadFile and the decoder make of the configured path: no such file,
\* another read error, a document that does not decode, or a decoded document.
FileOutcomes == {"notexist", "ioerr", "malformed", "data"}

-----------------------------------------------------------------------------
(* pprof.Server: the two listeners *)

\* s.ipv4Server and s.ipv6Server.
Fam == {"ipv4", "ipv6"}

NoErr == [kind |-> "nil", from |-> ""]

\* metricsServer and pprofServer of run.
Srv == {"metrics", "pprof"}

\* run before its first statement: no server, no hook, no signal.
RunNew ==
    /\ runPc = "load"
    /\ runRet = "none"
    /\ srvNew = [s \in Srv |-> FALSE]
    /\ startG = [s \in Srv |-> "none"]
    /\ hookAdded = FALSE
    /\ notify = FALSE
    /\ sigCh = 0
    /\ sigs = 0
    /\ hookPc = "none"
    /\ hookCalls = 0
    /\ stopG = [s \in Srv |-> "none"]
    /\ stopCnt = [s \in Srv |-> 0]
    /\ stopErr = [s \in Srv |-> "none"]
    /\ runEg = NoErr
    /\ logged = NoErr
    /\ exit = "alive"

\* NewServer: two http.Server values, nothing bound, stopped = false.
ServerNew ==
    /\ stopped = FALSE
    /\ inShutdown = [f \in Fam |-> FALSE]
    /\ lst = [f \in Fam |-> "none"]
    /\ closes = [f \in Fam |-> 0]
    /\ conns = [f \in Fam |-> 0]
    /\ startPc = "idle"
    /\ gor = [f \in Fam |-> "idle"]
    /\ lasErr = [f \in Fam |-> "none"]
    /\ reported = [f \in Fam |-> FALSE]
    /\ stopPc = "idle"
    /\ stopCalls = 0
    /\ stopRet = NoErr
    /\ ctxDone = FALSE
    /\ sd = [f \in Fam |-> "idle"]
    /\ sdErr = [f \in Fam |-> "none"]
    /\ sdOrder = <<>>
    /\ egErr = NoErr

\* Everything of the server a step leaves alone is named through these.
sockVars  == <<lst, closes>>
startVars == <<startPc, gor, lasErr, reported>>
stopVars  == <<stopPc, stopCalls, stopRet, ctxDone, sd, sdErr, sdOrder, egErr>>

-----------------------------------------------------------------------------
(* Server.Start: two goroutines, each running ListenAndServe on one listener *)

\* Start up to the first "go func()": the IPv4 goroutine is launched.
StartCall ==
    /\ startPc = "idle"
    /\ startPc' = "go6"
    /\ gor' = [gor EXCEPT !["ipv4"] = "las"]
    /\ UNCHANGED <<cfgVars, runVars, stopped, inShutdown, sockVars, conns, portBusy,
                   lasErr, reported, stopVars>>

\* The second "go func()": the IPv6 goroutine is launched; Start logs and
\* goes on to waitGrp.Wait().
StartGo6 ==
    /\ startPc = "go6"
    /\ startPc' = "wait"
    /\ gor' = [gor EXCEPT !["ipv6"] = "las"]
    /\ UNCHANGED <<cfgVars, runVars, stopped, inShutdown, sockVars, conns, portBusy,
                   lasErr, reported, stopVars>>

\* ListenAndServe begins: a server that is shutting down returns
\* http.ErrServerClosed at once.
ListenAndServe(f) ==
    /\ gor[f] = "las"
    /\ IF inShutdown[f]
       THEN /\ gor' = [gor EXCEPT ![f] = "ret"]
            /\ lasErr' = [lasErr EXCEPT ![f] = "closed"]
       ELSE /\ gor' = [gor EXCEPT ![f] = "listen"]
            /\ UNCHANGED lasErr
    /\ UNCHANGED <<cfgVars, runVars, stopped, inShutdown, sockVars, conns, portBusy,
                   startPc, reported, stopVars>>

\* net.Listen: binds the address, or fails when it is in use.
Listen(f) ==
    /\ gor[f] = "listen"
    /\ IF portBusy[f]
       THEN /\ gor' = [gor EXCEPT ![f] = "ret"]
            /\ lasErr' = [lasErr EXCEPT ![f] = "bind"]
            /\ UNCHANGED lst
       ELSE /\ gor' = [gor EXCEPT ![f] = "track"]
            /\ lst' = [lst EXCEPT ![f] = "open"]
            /\ UNCHANGED lasErr
    /\ UNCHANGED <<cfgVars, runVars, stopped, inShutdown, closes, conns, portBusy,
                   startPc, reported, stopVars>>

\* Serve registers the listener with the server; if the server is shutting
\* down by then, Serve closes the listener and returns http.ErrServerClosed.
TrackListener(f) ==
    /\ gor[f] = "track"
    /\ IF inShutdown[f]
       THEN /\ gor' = [gor EXCEPT ![f] = "ret"]
            /\ lasErr' = [lasErr EXCEPT ![f] = "closed"]
            /\ lst' = [lst EXCEPT ![f] = "closed"]
            /\ closes' = [closes EXCEPT ![f] = @ + 1]
       ELSE /\ gor' = [gor EXCEPT ![f] = "serve"]
            /\ UNCHANGED <<lasErr, lst, closes>>
    /\ UNCHANGED <<cfgVars, runVars, stopped, inShutdown, conns, portBusy,
                   startPc, reported, stopVars>>

\* The accept loop takes a connection; its request is in flight.
Accept(f) ==
    /\ gor[f] = "serve"
    /\ lst[f] = "open"
    /\ conns[f] < MaxConns
    /\ conns' = [conns EXCEPT ![f] = @ + 1]
    /\ UNCHANGED <<cfgVars, runVars, stopped, inShutdown, sockVars, portBusy,
                   startVars, stopVars>>

\* A request in flight finishes and its connection goes away.
RequestDone(f) ==
    /\ conns[f] > 0
    /\ conns' = [conns EXCEPT ![f] = @ - 1]
    /\ UNCHANGED <<cfgVars, runVars, stopped, inShutdown, sockVars, portBusy,
                   startVars, stopVars>>

\* Accept fails because Shutdown closed the listener: Serve returns
\* http.ErrServerClosed.
AcceptClosed(f) ==
    /\ gor[f] = "serve"
    /\ lst[f] = "closed"
    /\ gor' = [gor EXCEPT ![f] = "ret"]
    /\ lasErr' = [lasErr EXCEPT ![f] = "closed"]
    /\ UNCHANGED <<cfgVars, runVars, stopped, inShutdown, sockVars, conns, portBusy,
                   startPc, reported, stopVars>>

\* The values the goroutine of f may read from s.stopped, a plain bool that
\* Stop writes without synchronisation. A goroutine whose ListenAndServe
\* returned because of the shutdown has synchronised with Stop through the
\* http.Server and reads the written value; one that returned with a bind
\* error has not, and the read races with the write.
StoppedRead(f) ==
    IF stopped /\ lasErr[f] = "bind" THEN {TRUE, FALSE} ELSE {stopped}

\* A goroutine that logs under "err != nil && s.stopped": the test on the
\* flag is inverted.
ClassifyInverted(f) ==
    /\ gor[f] = "ret"
    /\ \E seen \in StoppedRead(f) :
          reported' = [reported EXCEPT ![f] = (lasErr[f] # "none" /\ seen)]
    /\ gor' = [gor EXCEPT ![f] = "done"]
    /\ UNCHANGED <<cfgVars, runVars, stopped, inShutdown, sockVars, conns, portBusy,
                   startPc, lasErr, stopVars>>

\* A goroutine without "defer waitGrp.Done()": it ends, but the wait group
\* is never told.
ClassifyWithoutDone(f) ==
    /\ gor[f] = "ret"
    /\ \E seen \in StoppedRead(f) :
          reported' = [reported EXCEPT ![f] = (lasErr[f] # "none" /\ ~seen)]
    /\ gor' = [gor EXCEPT ![f] = "gone"]
    /\ UNCHANGED <<cfgVars, runVars, stopped, inShutdown, sockVars, conns, portBusy,
                   startPc, lasErr, stopVars>>

\* "err != nil && !s.stopped": the error is logged or dropped; the goroutine
\* ends (waitGrp.Done()).
Classify(f) ==
    /\ gor[f] = "ret"
    /\ \E seen \in StoppedRead(f) :
          reported' = [reported EXCEPT ![f] = (lasErr[f] # "none" /\ ~seen)]
    /\ gor' = [gor EXCEPT ![f] = "done"]
    /\ UNCHANGED <<cfgVars, runVars, stopped, inShutdown, sockVars, conns, portBusy,
                   startPc, lasErr, stopVars>>

\* A Start whose wait group counts one goroutine only: it returns as soon as
\* either goroutine is done.
StartReturnAny ==
    /\ startPc = "wait"
    /\ \E f \in Fam : gor[f] = "done"
    /\ startPc' = "returned"
    /\ UNCHANGED <<cfgVars, runVars, stopped, inShutdown, sockVars, conns, portBusy,
                   gor, lasErr, reported, stopVars>>

\* waitGrp.Wait() returns once both goroutines are done, and so does Start.
StartReturn ==
    /\ startPc = "wait"
    /\ \A f \in Fam : gor[f] = "done"
    /\ startPc' = "returned"
    /\ UNCHANGED <<cfgVars, runVars, stopped, inShutdown, sockVars, conns, portBusy,
                   gor, lasErr, reported, stopVars>>

-----------------------------------------------------------------------------
(* Server.Stop: one timeout context, an errgroup with one goroutine per listener *)

\* Stop is entered: context.WithTimeout, and a fresh errgroup.
StopCall ==
    /\ stopPc = "idle"
    /\ stopCalls < MaxStops
    /\ stopPc' = "mark"
    /\ stopCalls' = stopCalls + 1
    /\ ctxDone' = FALSE
    /\ sd' = [f \in Fam |-> "idle"]
    /\ sdErr' = [f \in Fam |-> "none"]
    /\ sdOrder' = <<>>
    /\ egErr' = NoErr
    /\ UNCHANGED <<cfgVars, runVars, stopped, inShutdown, sockVars, conns, portBusy,
                   startVars, stopRet>>

\* A Stop that flips s.stopped instead of setting it.
StopMarkToggles ==
    /\ stopPc = "mark"
    /\ stopped' = ~stopped
    /\ stopPc' = "go4"
    /\ UNCHANGED <<cfgVars, runVars, inShutdown, sockVars, conns, portBusy, startVars,
                   stopCalls, stopRet, ctxDone, sd, sdErr, sdOrder, egErr>>

\* A Stop that goes on to the Shutdown calls without writing s.stopped.
StopMarkSkipped ==
    /\ stopPc = "mark"
    /\ stopPc' = "go4"
    /\ UNCHANGED <<cfgVars, runVars, stopped, inShutdown, sockVars, conns, portBusy, startVars,
                   stopCalls, stopRet, ctxDone, sd, sdErr, sdOrder, egErr>>

\* "s.stopped = true", before any Shutdown is issued.
StopMark ==
    /\ stopPc = "mark"
    /\ stopped' = TRUE
    /\ stopPc' = "go4"
    /\ UNCHANGED <<cfgVars, runVars, inShutdown, sockVars, conns, portBusy, startVars,
                   stopCalls, stopRet, ctxDone, sd, sdErr, sdOrder, egErr>>

\* errGrp.Go for s.ipv4Server (never nil after NewServer).
StopGo4 ==
    /\ stopPc = "go4"
    /\ sd' = [sd EXCEPT !["ipv4"] = "begin"]
    /\ stopPc' = "go6"
    /\ UNCHANGED <<cfgVars, runVars, stopped, inShutdown, sockVars, conns, portBusy, startVars,
                   stopCalls, stopRet, ctxDone, sdErr, sdOrder, egErr>>

\* errGrp.Go for s.ipv6Server; Stop goes on to errGrp.Wait().
StopGo6 ==
    /\ stopPc = "go6"
    /\ sd' = [sd EXCEPT !["ipv6"] = "begin"]
    /\ stopPc' = "wait"
    /\ UNCHANGED <<cfgVars, runVars, stopped, inShutdown, sockVars, conns, portBusy, startVars,
                   stopCalls, stopRet, ctxDone, sdErr, sdOrder, egErr>>

\* A Shutdown that marks the server as shutting down but leaves the
\* listener Serve registered open.
ShutdownBeginKeepsListener(f) ==
    /\ sd[f] = "begin"
    /\ inShutdown' = [inShutdown EXCEPT ![f] = TRUE]
    /\ sd' = [sd EXCEPT ![f] = "poll"]
    /\ UNCHANGED <<cfgVars, runVars, stopped, sockVars, conns, portBusy, startVars,
                   stopPc, stopCalls, stopRet, ctxDone, sdErr, sdOrder, egErr>>

\* Shutdown(ctx) begins: the server is marked as shutting down and the
\* listener Serve registered, if any, is closed (a registered listener is
\* closed at most once, however often Close is called on it).
ShutdownBegin(f) ==
    /\ sd[f] = "begin"
    /\ inShutdown' = [inShutdown EXCEPT ![f] = TRUE]
    /\ IF gor[f] = "serve" /\ lst[f] = "open"
       THEN /\ lst' = [lst EXCEPT ![f] = "closed"]
            /\ closes' = [closes EXCEPT ![f] = @ + 1]
       ELSE UNCHANGED <<lst, closes>>
    /\ sd' = [sd EXCEPT ![f] = "poll"]
    /\ UNCHANGED <<cfgVars, runVars, stopped, conns, portBusy, startVars,
                   stopPc, stopCalls, stopRet, ctxDone, sdErr, sdOrder, egErr>>

\* An errgroup that keeps the latest error instead of the first.
ErrLast(f, e) ==
    IF e # "nil" THEN [kind |-> e, from |-> f] ELSE egErr

\* errgroup.Group.Go's wrapper: the first non-nil error is kept (errOnce). The
\* zero Group has no cancel function, so nothing else happens on an error.
ErrOnce(f, e) ==
    IF e # "nil" /\ egErr = NoErr THEN [kind |-> e, from |-> f] ELSE egErr

\* The goroutine of f ends with Shutdown's result e.
ShutdownReturns(f, e) ==
    /\ sd' = [sd EXCEPT ![f] = "done"]
    /\ sdErr' = [sdErr EXCEPT ![f] = e]
    /\ sdOrder' = Append(sdOrder, f)
    /\ egErr' = ErrOnce(f, e)
    /\ UNCHANGED <<cfgVars, runVars, stopped, inShutdown, sockVars, conns, portBusy, startVars,
                   stopPc, stopCalls, stopRet, ctxDone>>

\* Shutdown finds no connection in flight and returns nil.
ShutdownIdle(f) ==
    /\ sd[f] = "poll"
    /\ conns[f] = 0
    /\ ShutdownReturns(f, "nil")

\* Shutdown still has a connection in flight when the context expires: it
\* returns ctx.Err() and leaves the connection as it is.
ShutdownDeadline(f) ==
    /\ sd[f] = "poll"
    /\ conns[f] > 0
    /\ ctxDone
    /\ ShutdownReturns(f, "deadline")

\* The 5 seconds of context.WithTimeout pass while Stop is running.
Timeout ==
    /\ stopPc # "idle"
    /\ ~ctxDone
    /\ ctxDone' = TRUE
    /\ UNCHANGED <<cfgVars, runVars, stopped, inShutdown, sockVars, conns, portBusy, startVars,
                   stopPc, stopCalls, stopRet, sd, sdErr, sdOrder, egErr>>

\* An errGrp.Wait() that returns as soon as one goroutine has ended.
WaitAny == \E f \in Fam : sd[f] = "done"

\* errGrp.Wait(): blocks until every goroutine started with Go has ended.
WaitDone == \A f \in Fam : sd[f] = "done"

\* "return errGrp.Wait()".
StopReturn ==
    /\ stopPc = "wait"
    /\ WaitDone
    /\ stopRet' = egErr
    /\ stopPc' = "idle"
    /\ UNCHANGED <<cfgVars, runVars, stopped, inShutdown, sockVars, conns, portBusy, startVars,
                   stopCalls, ctxDone, sd, sdErr, sdOrder, egErr>>

InitServer ==
    /\ flagsIn = NoInputs.flags
    /\ envIn = NoInputs.env
    /\ fileIn = [outcome |-> "notexist", malformed |-> FALSE, doc |-> NoInputs.doc]
    /\ cfgPc = "call"
    /\ result = Return(ZeroConfig, NilErr, NoInputs.flags, {})
    /\ ServerNew
    /\ RunNew
    /\ portBusy \in [Fam -> BOOLEAN]

NextServer ==
    \/ StartCall
    \/ StartGo6
    \/ \E f \in Fam : ListenAndServe(f)
    \/ \E f \in Fam : Listen(f)
    \/ \E f \in Fam : TrackListener(f)
    \/ \E f \in Fam : Accept(f)
    \/ \E f \in Fam : RequestDone(f)
    \/ \E f \in Fam : AcceptClosed(f)
    \/ \E f \in Fam : Classify(f)
    \/ StartReturn
    \/ StopCall
    \/ StopMark
    \/ StopGo4
    \/ StopGo6
    \/ \E f \in Fam : ShutdownBegin(f)
    \/ \E f \in Fam : ShutdownIdle(f)
    \/ \E f \in Fam : ShutdownDeadline(f)
    \/ Timeout
    \/ StopReturn

SpecServer == InitServer /\ [][NextServer]_vars

\* The Go scheduler runs every goroutine that can take a step, and the 5
\* seconds of Stop's context pass: each step of Start, of Stop and of their
\* goroutines is taken if it stays possible. Calling Start or Stop, a client
\* connecting and a request finishing are up to the environment.
FairServer ==
    /\ WF_vars(StartGo6)
    /\ WF_vars(StartReturn)
    /\ WF_vars(StopMark)
    /\ WF_vars(StopGo4)
    /\ WF_vars(StopGo6)
    /\ WF_vars(Timeout)
    /\ WF_vars(StopReturn)
    /\ \A f \in Fam :
          /\ WF_vars(ListenAndServe(f))
          /\ WF_vars(Listen(f))
          /\ WF_vars(TrackListener(f))
          /\ WF_vars(AcceptClosed(f))
          /\ WF_vars(Classify(f))
          /\ WF_vars(ShutdownBegin(f))
          /\ WF_vars(ShutdownIdle(f))
          /\ WF_vars(ShutdownDeadline(f))

SpecServerFair == InitServer /\ [][NextServer]_vars /\ FairServer

NoResult == Return(ZeroConfig, NilErr, NoInputs.flags, {})

InitConfig ==
    /\ \E o \in FileOutcomes : InputsUpTo(MaxEntries, 1, 0, NoInputs, o)
    /\ cfgPc = "call"
    /\ result = NoResult
    /\ ServerNew
    /\ RunNew
    /\ portBusy = [f \in Fam |-> FALSE]

\* run calls config.LoadConfig(cmd).
CallLoadConfig ==
    /\ cfgPc = "call"
    /\ result' = LoadConfig(flagsIn, envIn, fileIn)
    /\ cfgPc' = "done"
    /\ UNCHANGED <<flagsIn, envIn, fileIn>>
    /\ UNCHANGED <<srvVars, runVars>>

NextConfig == CallLoadConfig

SpecConfig == InitConfig /\ [][NextConfig]_vars

-----------------------------------------------------------------------------
(* cmd.run: load the configuration, start the enabled servers, wait for a
   signal and stop them *)

\* The process runs: nothing called os.Exit, no signal killed it, and run has
\* not returned to cobra and main.
Alive == exit = "alive" /\ runPc # "returned"

runSrvVars  == <<srvNew, startG>>
runSigVars  == <<hookAdded, notify, sigCh, sigs>>
runHookVars == <<hookPc, hookCalls, stopG, stopCnt, stopErr, runEg, logged>>

\* A run that goes on with whatever LoadConfig handed back, error or not.
RunLoadConfigIgnoresErr ==
    /\ Alive
    /\ runPc = "load"
    /\ result' = LoadConfig(flagsIn, envIn, fileIn)
    /\ cfgPc' = "done"
    /\ runPc' = "metrics"
    /\ UNCHANGED <<flagsIn, envIn, fileIn, srvVars, runRet, runSrvVars, runSigVars,
                   runHookVars, exit>>

\* "config, err := config.LoadConfig(cmd)": on an error run returns it wrapped.
RunLoadConfig ==
    /\ Alive
    /\ runPc = "load"
    /\ result' = LoadConfig(flagsIn, envIn, fileIn)
    /\ cfgPc' = "done"
    /\ IF result'.err # NilErr
       THEN runPc' = "returned" /\ runRet' = "loaderr"
       ELSE runPc' = "metrics" /\ UNCHANGED runRet
    /\ UNCHANGED <<flagsIn, envIn, fileIn, srvVars, runSrvVars, runSigVars,
                   runHookVars, exit>>

\* "if config.Metrics.Enabled": NewServer and "go metricsServer.Start()".
RunMetrics ==
    /\ Alive
    /\ runPc = "metrics"
    /\ IF result.config[MetricsEnabledKey]
       THEN /\ srvNew' = [srvNew EXCEPT !["metrics"] = TRUE]
            /\ startG' = [startG EXCEPT !["metrics"] = "running"]
       ELSE UNCHANGED <<srvNew, startG>>
    /\ runPc' = "pprof"
    /\ UNCHANGED <<cfgVars, srvVars, runRet, runSigVars, runHookVars, exit>>

\* A run that creates and starts the pprof server whatever PProf.Enabled is.
RunPprofUnconditional ==
    /\ Alive
    /\ runPc = "pprof"
    /\ srvNew' = [srvNew EXCEPT !["pprof"] = TRUE]
    /\ startG' = [startG EXCEPT !["pprof"] = "running"]
    /\ runPc' = "add"
    /\ UNCHANGED <<cfgVars, srvVars, runRet, runSigVars, runHookVars, exit>>

\* "if config.PProf.Enabled": NewServer and "go pprofServer.Start()".
RunPprof ==
    /\ Alive
    /\ runPc = "pprof"
    /\ IF result.config[PProfEnabledKey]
       THEN /\ srvNew' = [srvNew EXCEPT !["pprof"] = TRUE]
            /\ startG' = [startG EXCEPT !["pprof"] = "running"]
       ELSE UNCHANGED <<srvNew, startG>>
    /\ runPc' = "add"
    /\ UNCHANGED <<cfgVars, srvVars, runRet, runSigVars, runHookVars, exit>>

\* A server's Start returns in its own goroutine, once both of its listeners
\* have terminated; run never waits for it.
ServerStartReturns(s) ==
    /\ Alive
    /\ startG[s] = "running"
    /\ startG' = [startG EXCEPT ![s] = "returned"]
    /\ UNCHANGED <<cfgVars, srvVars, runPc, runRet, srvNew, runSigVars, runHookVars, exit>>

\* "shutdown.AddWithParam(stop)".
RunAddHook ==
    /\ Alive
    /\ runPc = "add"
    /\ hookAdded' = TRUE
    /\ runPc' = "listen"
    /\ UNCHANGED <<cfgVars, srvVars, runRet, runSrvVars, notify, sigCh, sigs,
                   runHookVars, exit>>

\* shutdown.Listen: signal.Notify on a channel of capacity 1, then "<-ch".
RunListen ==
    /\ Alive
    /\ runPc = "listen"
    /\ notify' = TRUE
    /\ runPc' = "recv"
    /\ UNCHANGED <<cfgVars, srvVars, runRet, runSrvVars, hookAdded, sigCh, sigs,
                   runHookVars, exit>>

\* The process is sent SIGINT, SIGTERM or SIGQUIT. Before signal.Notify the
\* signal kills the process; after it, the signal is put into the channel, or
\* dropped when the channel is full.
Signal ==
    /\ Alive
    /\ sigs < MaxSignals
    /\ sigs' = sigs + 1
    /\ IF ~notify
       THEN exit' = "killed" /\ UNCHANGED sigCh
       ELSE /\ sigCh' = IF sigCh = 0 THEN 1 ELSE sigCh
            /\ UNCHANGED exit
    /\ UNCHANGED <<cfgVars, srvVars, runPc, runRet, runSrvVars, hookAdded, notify,
                   runHookVars>>

\* shutdown.Listen receives a signal and invokes every registered hook in a
\* goroutine of its own; it then waits for the hooks.
ListenRecv ==
    /\ Alive
    /\ runPc = "recv"
    /\ sigCh > 0
    /\ sigCh' = sigCh - 1
    /\ IF hookAdded
       THEN hookPc' = "go_metrics" /\ hookCalls' = hookCalls + 1
       ELSE hookPc' = "done" /\ UNCHANGED hookCalls
    /\ runPc' = "hooks"
    /\ UNCHANGED <<cfgVars, srvVars, runRet, runSrvVars, hookAdded, notify, sigs,
                   stopG, stopCnt, stopErr, runEg, logged, exit>>

\* stop: "if metricsServer != nil { errGrp.Go(metricsServer.Stop) }".
HookGoMetrics ==
    /\ Alive
    /\ hookPc = "go_metrics"
    /\ IF srvNew["metrics"]
       THEN /\ stopG' = [stopG EXCEPT !["metrics"] = "running"]
            /\ stopCnt' = [stopCnt EXCEPT !["metrics"] = @ + 1]
       ELSE UNCHANGED <<stopG, stopCnt>>
    /\ hookPc' = "go_pprof"
    /\ UNCHANGED <<cfgVars, srvVars, runPc, runRet, runSrvVars, runSigVars,
                   hookCalls, stopErr, runEg, logged, exit>>

\* stop: "if pprofServer != nil { errGrp.Go(pprofServer.Stop) }".
HookGoPprof ==
    /\ Alive
    /\ hookPc = "go_pprof"
    /\ IF srvNew["pprof"]
       THEN /\ stopG' = [stopG EXCEPT !["pprof"] = "running"]
            /\ stopCnt' = [stopCnt EXCEPT !["pprof"] = @ + 1]
       ELSE UNCHANGED <<stopG, stopCnt>>
    /\ hookPc' = "wait"
    /\ UNCHANGED <<cfgVars, srvVars, runPc, runRet, runSrvVars, runSigVars,
                   hookCalls, stopErr, runEg, logged, exit>>

\* What pprof.Server.Stop returns: nil, or the deadline error of a Shutdown
\* that ran out of time.
PprofStopOutcomes == {"nil", "deadline"}

\* What metrics.Server.Stop returns: the same two outcomes.
MetricsStopOutcomes == {"nil", "deadline"}

StopOutcomes(s) == IF s = "metrics" THEN MetricsStopOutcomes ELSE PprofStopOutcomes

\* The errgroup of the stop closure keeps the first non-nil error.
RunErrOnce(s, e) ==
    IF e # "nil" /\ runEg = NoErr THEN [kind |-> e, from |-> s] ELSE runEg

\* The Stop of server s returns e in its errgroup goroutine.
ServerStopReturns(s) ==
    /\ Alive
    /\ stopG[s] = "running"
    /\ \E e \in StopOutcomes(s) :
          /\ stopErr' = [stopErr EXCEPT ![s] = e]
          /\ runEg' = RunErrOnce(s, e)
    /\ stopG' = [stopG EXCEPT ![s] = "done"]
    /\ UNCHANGED <<cfgVars, srvVars, runPc, runRet, runSrvVars, runSigVars,
                   hookPc, hookCalls, stopCnt, logged, exit>>

\* An errGrp.Wait() that returns as soon as a goroutine has returned an error.
RunWaitFirstError ==
    \/ runEg # NoErr
    \/ \A s \in Srv : stopG[s] # "running"

\* errGrp.Wait() of the stop closure: every goroutine started with Go has ended.
RunWaitDone == \A s \in Srv : stopG[s] # "running"

\* A stop closure that logs a shutdown error and goes on to "Shutdown
\* complete" without os.Exit(1).
HookWaitNoExit ==
    /\ Alive
    /\ hookPc = "wait"
    /\ RunWaitDone
    /\ logged' = runEg
    /\ hookPc' = "done"
    /\ UNCHANGED <<cfgVars, srvVars, runPc, runRet, runSrvVars, runSigVars,
                   hookCalls, stopG, stopCnt, stopErr, runEg, exit>>

\* stop: "if err := errGrp.Wait(); err != nil { slog.Error(...); os.Exit(1) }".
HookWait ==
    /\ Alive
    /\ hookPc = "wait"
    /\ RunWaitDone
    /\ IF runEg # NoErr
       THEN /\ logged' = runEg
            /\ exit' = "exit1"
            /\ hookPc' = "exited"
       ELSE /\ hookPc' = "done"
            /\ UNCHANGED <<logged, exit>>
    /\ UNCHANGED <<cfgVars, srvVars, runPc, runRet, runSrvVars, runSigVars,
                   hookCalls, stopG, stopCnt, stopErr, runEg>>

\* A Listen that goes back to waiting for a signal once the hooks are done.
ListenLoops ==
    /\ Alive
    /\ runPc = "hooks"
    /\ hookPc = "done"
    /\ runPc' = "recv"
    /\ UNCHANGED <<cfgVars, srvVars, runRet, runSrvVars, runSigVars, runHookVars, exit>>

\* shutdown.Listen returns once the hooks are done, and run returns nil.
ListenReturn ==
    /\ Alive
    /\ runPc = "hooks"
    /\ hookPc = "done"
    /\ runPc' = "returned"
    /\ runRet' = "nil"
    /\ UNCHANGED <<cfgVars, srvVars, runSrvVars, runSigVars, runHookVars, exit>>

\* The command line, environment and file run is started with: each enabled
\* flag passed or not, METRICS__ENABLED set or not, pprof.enabled given by the
\* file or not.
RunInputs(o) ==
    \E fm \in BOOLEAN, fp \in BOOLEAN, es \in BOOLEAN, dp \in BOOLEAN :
        \E e \in EnvStrs(MetricsEnabledKey) :
            LET b1 == IF fm THEN WithFlag(NoInputs, MetricsEnabledKey, TRUE) ELSE NoInputs
                b2 == IF fp THEN WithFlag(b1, PProfEnabledKey, TRUE) ELSE b1
                b3 == IF es THEN WithEnv(b2, MetricsEnabledKey, e) ELSE b2
                b4 == IF dp THEN WithFile(b3, PProfEnabledKey, TRUE) ELSE b3
            IN  DrawInputs(b4, o)

InitRun ==
    /\ \E o \in {"notexist", "malformed", "data"} : RunInputs(o)
    /\ cfgPc = "call"
    /\ result = NoResult
    /\ ServerNew
    /\ RunNew
    /\ portBusy = [f \in Fam |-> FALSE]

NextRun ==
    \/ RunLoadConfig
    \/ RunMetrics
    \/ RunPprof
    \/ \E s \in Srv : ServerStartReturns(s)
    \/ RunAddHook
    \/ RunListen
    \/ Signal
    \/ ListenRecv
    \/ HookGoMetrics
    \/ HookGoPprof
    \/ \E s \in Srv : ServerStopReturns(s)
    \/ HookWait
    \/ ListenReturn

SpecRun == InitRun /\ [][NextRun]_vars

-----------------------------------------------------------------------------
(* Properties of LoadConfig *)

LoadDone == cfgPc = "done"

\* The config path the caller configured: the --config flag when passed, else
\* the CONFIG environment variable when set, else the flag's default.
ConfiguredPath ==
    IF flagsIn[ConfigFileKey].Changed THEN flagsIn[ConfigFileKey].Value
    ELSE IF envIn[OptName(ConfigFileKey)].set THEN envIn[OptName(ConfigFileKey)].val
    ELSE DefaultConfigName

\* The flag for k was not passed and its environment variable is set.
EnvApplies(k) == ~flagsIn[k].Changed /\ envIn[OptName(k)].set

\* The environment override of flag k is attempted and does not parse.
EnvFails(k) == EnvApplies(k) /\ ~Set(k, envIn[OptName(k)].val).ok

\* The value E the environment variable of k carries.
EnvValue(k) == Set(k, envIn[OptName(k)].val).val

\* The config file is read and decoded, and it gives key k a value.
FileSets(k) ==
    /\ fileIn.outcome = "data" /\ ~fileIn.malformed
    /\ \E p \in DocPathsOf(k) : fileIn.doc[p].set

\* The documented default of a host or port field that gap-filling fills.
GapDefault(k) ==
    CASE k = MetricsIPV4HostKey -> DefaultMetricsIPV4Host
      [] k = MetricsIPV6HostKey -> DefaultMetricsIPV6Host
      [] k = MetricsPortKey     -> DefaultMetricsPort
      [] k = PProfIPV4HostKey   -> DefaultPprofIPV4Host
      [] k = PProfIPV6HostKey   -> DefaultPprofIPV6Host
      [] k = PProfPortKey       -> DefaultPprofPort

GapKeys ==
    { MetricsIPV4HostKey, MetricsIPV6HostKey, MetricsPortKey,
      PProfIPV4HostKey, PProfIPV6HostKey, PProfPortKey }

\* The value v of key k as the resolved config shows it: a zero host or port
\* reads as its documented default.
Resolved(k, v) == IF k \in GapKeys /\ v = Zero(k) THEN GapDefault(k) ELSE v

\* The config the documentation promises when nothing is configured.
DocumentedDefaults ==
    [k \in ConfigKeys |-> IF k \in GapKeys THEN GapDefault(k) ELSE Zero(k)]

\* C1: an explicitly passed flag's value is the value of its field in the config
\* LoadConfig returns, whatever the config file and the environment hold and
\* whether or not the file exists. Stated for the returns without error, and
\* reading a zero host or port as its documented default.
C1_FlagWins ==
    (LoadDone /\ result.err = NilErr) =>
        \A k \in ConfigKeys :
            flagsIn[k].Changed => result.config[k] = Resolved(k, flagsIn[k].Value)

EmptyFile == [outcome |-> "data", malformed |-> FALSE, doc |-> NoInputs.doc]

\* C3: with the default config path and the file absent, LoadConfig returns what
\* it returns with the default file present but empty.
C3_AbsentAsEmpty ==
    (LoadDone /\ ConfiguredPath = DefaultConfigName /\ fileIn.outcome = "notexist") =>
        /\ result.err = LoadConfig(flagsIn, envIn, EmptyFile).err
        /\ result.config = LoadConfig(flagsIn, envIn, EmptyFile).config

\* C4: default config path, no file, no environment variable, no flag: LoadConfig
\* returns no error and the documented defaults.
C4_PureDefaults ==
    ( /\ LoadDone
      /\ fileIn.outcome = "notexist"
      /\ \A k \in FlagNames : ~flagsIn[k].Changed /\ ~envIn[OptName(k)].set ) =>
        /\ result.err = NilErr
        /\ result.config = DocumentedDefaults

\* C5 as claimed: a configured path that is non-empty, not the default name and
\* does not exist makes LoadConfig return the wrapped file-read error, whatever
\* the environment and the other flags.
C5_MissingFileIsReadError ==
    ( /\ LoadDone
      /\ ConfiguredPath \notin {<<>>, DefaultConfigName}
      /\ fileIn.outcome = "notexist" ) =>
        result.err.kind = "read"

\* C5 as amended: such a path makes LoadConfig return a non-nil error: the
\* wrapped file-read error, unless an environment override failed to parse, in
\* which case the environment error is returned and the file is never read.
C5_MissingFileIsError ==
    ( /\ LoadDone
      /\ ConfiguredPath \notin {<<>>, DefaultConfigName}
      /\ fileIn.outcome = "notexist" ) =>
        /\ result.err # NilErr
        /\ (\E k \in FlagNames : EnvFails(k)) => result.err.kind = "env"
        /\ ~(\E k \in FlagNames : EnvFails(k)) => result.err.kind = "read"

\* The path came from the CONFIG environment variable and the read failed.
C5_Witness ==
    /\ LoadDone
    /\ ~flagsIn[ConfigFileKey].Changed
    /\ ConfiguredPath = OtherConfigName
    /\ fileIn.outcome = "notexist"
    /\ result.err.kind = "read"

\* The position in FlagOrder of the first flag whose environment override fails.
FirstFailing ==
    CHOOSE i \in 1..Len(FlagOrder) :
        /\ EnvFails(FlagOrder[i])
        /\ \A j \in 1..(i - 1) : ~EnvFails(FlagOrder[j])

\* C6: when an environment override fails to parse, LoadConfig returns the
\* error of the first failing flag in visit order, leaves every flag visited
\* after it as it was, and neither reads the file nor applies flag overrides
\* nor fills defaults: the returned config is the zero config.
C6_EnvFailFast ==
    (LoadDone /\ \E k \in FlagNames : EnvFails(k)) =>
        /\ result.err = [kind |-> "env", flag |-> FlagOrder[FirstFailing]]
        /\ \A i \in (FirstFailing + 1)..Len(FlagOrder) :
              result.flags[FlagOrder[i]] = flagsIn[FlagOrder[i]]
        /\ result.steps = {}
        /\ result.config = ZeroConfig

\* An override fails while a later flag has an override waiting.
C6_Witness ==
    /\ LoadDone
    /\ \E k \in FlagNames : EnvFails(k)
    /\ \E i \in (FirstFailing + 1)..Len(FlagOrder) : EnvApplies(FlagOrder[i])
    /\ result.err.kind = "env"

\* C7: whenever LoadConfig returns without error, the hosts of metrics and pprof
\* are non-empty and their ports non-zero.
C7_ConcreteBindAddresses ==
    (LoadDone /\ result.err = NilErr) =>
        \A k \in GapKeys : result.config[k] # Zero(k)

-----------------------------------------------------------------------------
(* Properties of Server.Stop *)

\* A call of Stop has returned and no other is running.
StopReturned == stopPc = "idle" /\ stopCalls > 0

\* The first listener, in the order the Shutdown calls returned, whose
\* Shutdown returned an error.
FirstFailed ==
    sdOrder[CHOOSE i \in 1..Len(sdOrder) :
                /\ sdErr[sdOrder[i]] # "nil"
                /\ \A j \in 1..(i - 1) : sdErr[sdOrder[j]] = "nil"]

\* C8: Stop returns only after the Shutdown of both listeners has run and
\* returned, whatever either returned; it returns nil iff both returned nil, and
\* otherwise the error of the Shutdown that failed first.
C8_StopWaitsForBoth ==
    StopReturned =>
        /\ \A f \in Fam : sd[f] = "done" /\ inShutdown[f] /\ sdErr[f] # "none"
        /\ (stopRet = NoErr) <=> (\A f \in Fam : sdErr[f] = "nil")
        /\ (stopRet # NoErr) =>
              stopRet = [kind |-> sdErr[FirstFailed], from |-> FirstFailed]

\* The IPv4 Shutdown failed first, the IPv6 Shutdown still ran to its end and
\* returned nil, and Stop returned the IPv4 error.
C8_Witness ==
    /\ StopReturned
    /\ sdOrder = <<"ipv4", "ipv6">>
    /\ sdErr["ipv4"] = "deadline"
    /\ sdErr["ipv6"] = "nil"
    /\ stopRet = [kind |-> "deadline", from |-> "ipv4"]

\* C9: Stop on a server that was never started returns nil and leaves the
\* server as NewServer built it.
C9_StopBeforeStartNoEffect ==
    (startPc = "idle" /\ StopReturned) =>
        /\ stopRet = NoErr
        /\ stopped = FALSE
        /\ inShutdown = [f \in Fam |-> FALSE]
        /\ lst = [f \in Fam |-> "none"]

\* What holds once Stop has been called twice and both calls have returned:
\* the server is stopped and every listener Serve got hold of is closed; and
\* at all times no socket has been released more than once.
C10_TwiceStopped ==
    /\ \A f \in Fam : closes[f] <= 1
    /\ (stopCalls >= 2 /\ stopPc = "idle") =>
          /\ stopped
          /\ \A f \in Fam : (lst[f] # "none" /\ gor[f] # "track") =>
                                (lst[f] = "closed" /\ closes[f] = 1)

\* What every step keeps: s.stopped changes only from false to true and only
\* in the first call of Stop, and what a Shutdown returns is decided by
\* whether a request is in flight on its listener.
C10_Step ==
    /\ (stopped' # stopped) => (~stopped /\ stopped' /\ stopCalls = 1)
    /\ \A f \in Fam :
          (sd[f] = "poll" /\ sd'[f] = "done") =>
              ((sdErr'[f] = "nil") <=> (conns[f] = 0))

\* C10: a second Stop on a server that was running and has been stopped leaves
\* it stopped with its listeners closed, releases no socket a second time, and
\* returns a result decided by the requests still in flight; s.stopped changes
\* only in the first call.
C10_StopIdempotent == []C10_TwiceStopped /\ [][C10_Step]_vars

\* Both listeners served, Start has returned, and Stop has returned twice.
C10_Witness ==
    /\ stopCalls = 2 /\ stopPc = "idle"
    /\ startPc = "returned"
    /\ \A f \in Fam : lst[f] = "closed" /\ closes[f] = 1 /\ lasErr[f] = "closed"
    /\ stopRet = NoErr

-----------------------------------------------------------------------------
(* Properties of Server.Start *)

Sibling(f) == IF f = "ipv4" THEN "ipv6" ELSE "ipv4"

\* The goroutine of f has ended, or its ListenAndServe has returned.
Terminated(f) == gor[f] \in {"ret", "done"}

\* C11: Start has launched both goroutines before it waits, and it has not
\* returned unless both goroutines are done: with only one listener
\* terminated, Start is still blocked.
C11_StartBlocksUntilBoth ==
    /\ (startPc \in {"wait", "returned"}) => \A f \in Fam : gor[f] # "idle"
    /\ (startPc = "returned") => \A f \in Fam : gor[f] = "done"
    /\ (\E f \in Fam : gor[f] # "done") => startPc # "returned"

\* The IPv4 bind failed and its goroutine is done, the IPv6 listener is
\* serving, and Start is blocked in waitGrp.Wait().
C11_Witness ==
    /\ startPc = "wait"
    /\ gor["ipv4"] = "done" /\ lasErr["ipv4"] = "bind"
    /\ gor["ipv6"] = "serve" /\ lst["ipv6"] = "open"

\* C12: as long as Stop has not been called, a listener whose bind failed has
\* its error logged when its goroutine ends, and a sibling whose address is
\* free is neither terminated nor closed by that failure.
C12_BindFailureContained ==
    (stopCalls = 0) =>
        \A f \in Fam :
            (lasErr[f] = "bind") =>
                /\ (gor[f] = "done") => reported[f]
                /\ ~portBusy[Sibling(f)] =>
                      /\ ~Terminated(Sibling(f))
                      /\ lst[Sibling(f)] # "closed"
                      /\ lasErr[Sibling(f)] = "none"

\* The IPv4 bind failed and was logged, and the IPv6 listener serves a request.
C12_Witness ==
    /\ stopCalls = 0
    /\ gor["ipv4"] = "done" /\ lasErr["ipv4"] = "bind" /\ reported["ipv4"]
    /\ gor["ipv6"] = "serve" /\ lst["ipv6"] = "open" /\ conns["ipv6"] = 1
    /\ ~reported["ipv6"]

\* Both listeners are bound and serving, and Stop has not been called.
BothServing ==
    /\ stopCalls = 0
    /\ \A f \in Fam : gor[f] = "serve" /\ lst[f] = "open"

\* Neither address accepts a connection: no socket is open on it.
Unreachable == \A f \in Fam : lst[f] = "closed"

\* What a Shutdown returns with no request in flight on its listener.
C13_Step ==
    \A f \in Fam :
        (sd[f] = "poll" /\ sd'[f] = "done" /\ conns[f] = 0) => sdErr'[f] = "nil"

-----------------------------------------------------------------------------
(* Start running concurrently with Stop *)

\* C19: s.stopped is written before Shutdown is called on either listener, so
\* a goroutine of Start whose ListenAndServe returned http.ErrServerClosed
\* reads stopped = true, and the close is never logged as an error.
C19_ShutdownCloseNotReported ==
    \A f \in Fam :
        /\ (sd[f] # "idle" \/ inShutdown[f]) => stopped
        /\ (lasErr[f] = "closed") =>
              /\ StoppedRead(f) = {TRUE}
              /\ ~reported[f]

\* Stop is still running while Start waits; the IPv4 listener had been
\* serving, was closed by Shutdown, and its goroutine ended without logging.
C19_Witness ==
    /\ startPc = "wait"
    /\ stopPc = "wait"
    /\ gor["ipv4"] = "done" /\ lasErr["ipv4"] = "closed" /\ closes["ipv4"] = 1
    /\ ~reported["ipv4"]
    /\ sd["ipv6"] = "begin" /\ gor["ipv6"] = "serve"

\* C20: a listener failure that Stop did not cause (the bind failed) is logged
\* when the goroutine ends, also when Stop was called before ListenAndServe
\* returned.
C20_RealFailureReported ==
    \A f \in Fam : (gor[f] = "done" /\ lasErr[f] = "bind") => reported[f]

-----------------------------------------------------------------------------
(* Properties of run and its stop closure *)

\* The servers run created and started.
Started == {s \in Srv : srvNew[s]}

\* The started servers whose Stop returned an error.
FailedStops == {s \in Started : stopErr[s] = "deadline"}

\* The stop closure is past errGrp.Wait().
PassEnded == hookPc \in {"done", "exited"}

\* C14: the process exits with a shutdown failure only after the Stop of
\* every started server has been called and has returned; while a Stop is
\* running or not yet called, no failed Stop has ended the process.
C14_ExitAfterEveryStop ==
    /\ (exit = "exit1") =>
          \A s \in Started : stopG[s] = "done" /\ stopCnt[s] = 1 /\ stopErr[s] # "none"
    /\ (\E s \in Started : hookCalls > 0 /\ stopG[s] # "done") =>
          (exit = "alive" /\ ~PassEnded)

\* Both servers were started, the Stop of metrics ran out of time first, the
\* Stop of pprof still ran and returned nil, and only then the process exited.
C14_Witness ==
    /\ exit = "exit1"
    /\ Started = Srv
    /\ stopErr["metrics"] = "deadline" /\ stopErr["pprof"] = "nil"
    /\ \A s \in Srv : stopG[s] = "done"
    /\ runEg = [kind |-> "deadline", from |-> "metrics"]

\* The servers whose error the stop closure reported.
LoggedFrom == IF logged = NoErr THEN {} ELSE {logged.from}

\* C15: when the stop closure reports a shutdown failure, the error of every
\* server whose Stop failed is among what it reports.
C15_AllErrorsReported ==
    (exit = "exit1") => FailedStops \subseteq LoggedFrom

\* C16: the stop closure is invoked at most once and the Stop of a server is
\* called at most once, however many signals arrive; once it has been invoked
\* Listen never receives again, and when its errgroup has been set up the
\* Stop of each started server, and of no other, has been called once.
C16_ShutdownOnce ==
    /\ hookCalls <= 1
    /\ \A s \in Srv : stopCnt[s] <= 1
    /\ (hookCalls > 0) => runPc \in {"hooks", "returned"}
    /\ (hookPc \in {"wait", "done", "exited"}) =>
          \A s \in Srv : stopCnt[s] = (IF srvNew[s] THEN 1 ELSE 0)

\* Two signals were sent, the second while the shutdown was under way and
\* still in the channel; the closure ran once, each server was stopped once,
\* and run returned.
C16_Witness ==
    /\ sigs = 2 /\ sigCh = 1
    /\ hookCalls = 1
    /\ Started = Srv
    /\ \A s \in Srv : stopCnt[s] = 1 /\ stopG[s] = "done"
    /\ runPc = "returned"

\* C17: once the stop closure is past errGrp.Wait(), the process has exited
\* with status 1 iff the Stop of some started server returned an error; the
\* process never exits with status 1 otherwise, and when run returns after a
\* shutdown it returns nil and every Stop returned nil.
C17_ExitStatus ==
    /\ PassEnded => ((exit = "exit1") <=> (FailedStops # {}))
    /\ (exit = "exit1") => (PassEnded /\ runRet = "none")
    /\ (runPc = "returned" /\ hookCalls > 0) =>
          (runRet = "nil" /\ exit = "alive" /\ FailedStops = {})

\* Both servers were started, each Stop returned nil, and run returned nil.
C17_Witness ==
    /\ runPc = "returned" /\ runRet = "nil"
    /\ exit = "alive"
    /\ Started = Srv
    /\ \A s \in Srv : stopErr[s] = "nil"
    /\ logged = NoErr

-----------------------------------------------------------------------------
(* Stop running out of time *)

\* C21: when a Shutdown of the latest Stop ran out of time, then once that
\* Stop has returned it has returned the deadline error and no connection of
\* that listener is left open.
C21_TimeoutForcesClose ==
    StopReturned =>
        \A f \in Fam :
            (sdErr[f] = "deadline") =>
                /\ stopRet # NoErr /\ stopRet.kind = "deadline"
                /\ conns[f] = 0

-----------------------------------------------------------------------------
(* The config file's schema *)

\* C22: a decoded config file that gives tracing.enabled or
\* tracing.otlp_endpoint nested under "tracing" (the document path that is the
\* key's dotted name, as for pprof.* and metrics.*), with no flag passed and no
\* environment variable set for the key, yields that value in the config
\* LoadConfig returns.
C22_NestedTracingKeys ==
    \A k \in {TracingEnabledKey, TracingOTLPEndKey} :
        ( /\ LoadDone
          /\ result.err = NilErr
          /\ fileIn.outcome = "data" /\ ~fileIn.malformed
          /\ "read" \in result.steps
          /\ fileIn.doc[k].set
          /\ ~flagsIn[k].Changed
          /\ ~envIn[OptName(k)].set )
        => result.config[k] = fileIn.doc[k].val

-----------------------------------------------------------------------------
(* Which servers run starts and stops *)

\* The resolved enabled flag of the feature server s serves.
EnabledKey(s) == IF s = "metrics" THEN MetricsEnabledKey ELSE PProfEnabledKey

\* run is past the statement that starts server s.
PastStartOf(s) ==
    IF s = "metrics" THEN runPc \notin {"load", "metrics"}
    ELSE runPc \notin {"load", "metrics", "pprof"}

\* C23: a server exists, has its Start running (the only place a listener is
\* bound) or has its Stop called only if LoadConfig returned without error
\* and the feature's enabled flag is true; every server created is started in
\* a goroutine; the stop closure calls Stop on exactly the servers started;
\* and run's way to the signal wait never waits for a Start to return.
C23_OnlyEnabledServers ==
    /\ \A s \in Srv :
          /\ (srvNew[s] \/ startG[s] # "none" \/ stopCnt[s] > 0 \/ stopG[s] # "none") =>
                (cfgPc = "done" /\ result.err = NilErr /\ result.config[EnabledKey(s)])
          /\ srvNew[s] <=> (startG[s] # "none")
          /\ (PastStartOf(s) /\ runRet # "loaderr") =>
                (srvNew[s] <=> result.config[EnabledKey(s)])
    /\ (hookPc \in {"wait", "done", "exited"}) =>
          {s \in Srv : stopCnt[s] > 0} = Started
    /\ (Alive /\ runPc \in {"metrics", "pprof", "add", "listen"}) =>
          ENABLED (RunMetrics \/ RunPprof \/ RunAddHook \/ RunListen)

\* Only metrics is enabled: its Start is still running in its goroutine while
\* run went on to the signal wait, and the shutdown pass stopped it and did
\* not touch pprof.
C23_Witness ==
    /\ result.config[MetricsEnabledKey] /\ ~result.config[PProfEnabledKey]
    /\ Started = {"metrics"}
    /\ startG = [s \in Srv |-> IF s = "metrics" THEN "running" ELSE "none"]
    /\ hookPc = "done"
    /\ stopCnt = [s \in Srv |-> IF s = "metrics" THEN 1 ELSE 0]
    /\ stopG["pprof"] = "none"

-----------------------------------------------------------------------------
(* Start returns after Stop *)

\* Start is blocked in waitGrp.Wait() with both listeners serving, and Stop
\* has just been invoked on the server for the first time.
StopInvokedWhileServing ==
    /\ startPc = "wait"
    /\ \A f \in Fam : gor[f] = "serve" /\ lst[f] = "open"
    /\ stopCalls = 1 /\ stopPc = "mark"

\* Both goroutines of Start have ended and Start has returned.
StartOver == startPc = "returned" /\ \A f \in Fam : gor[f] = "done"

\* C24: under fair scheduling, once Stop is invoked on a server whose Start is
\* blocked with both listeners serving, both listener goroutines end and Start
\* returns, whether Stop returns nil or a timeout error.
C24_StartReturnsAfterStop == StopInvokedWhileServing ~> StartOver

\* Start has returned after a Stop that returned the deadline error: a
\* request was still in flight when the time ran out.
C24_Witness ==
    /\ StartOver
    /\ stopCalls = 1 /\ StopReturned
    /\ stopRet.kind = "deadline"
    /\ \A f \in Fam : lasErr[f] = "closed" /\ closes[f] = 1

=============================================================================
